---------------------------- MODULE Spec2Model ----------------------------
(***************************************************************************)
(* Model of the statistics aggregation of analyze.py: the fold of the      *)
(* messages of one conversation into the per-participant statistics        *)
(* table, the averaging pass and the iteration of the intervals for        *)
(* display.                                                                *)
(*                                                                         *)
(* Encodings.  A Python str is a sequence of one-character strings.  A     *)
(* message is a record whose domain is the set of keys the JSON object     *)
(* carries, so that msg.get(k) depends on k \in DOMAIN msg.  The datetime  *)
(* stored under 'timestamp' is a record [year, month, hour].  The entry    *)
(* avg_msg_len is the only one true division turns into a non-integer; it  *)
(* is held as a reduced fraction [num, den] throughout, the integer n      *)
(* being n/1.  stats['intervals'] is the variable intervals, the other     *)
(* keys of stats (the participants' names) are the variable stats.  An     *)
(* exception that leaves analyze() is recorded in the variable fault,      *)
(* with the table as the statements executed before it left it.            *)
(***************************************************************************)
EXTENDS Integers, Sequences, FiniteSets, TLC

VARIABLES mode, msgs, stats, intervals, pc, fault, out

vars == <<mode, msgs, stats, intervals, pc, fault, out>>

(***************************************************************************)
(* Bounds and inputs                                                       *)
(***************************************************************************)
\* the longest conversation explored
MaxEvents == 3

INTERVALS == {"hourly", "monthly", "yearly"}

\* convo['participants'], in the order of the document
ParticipantList == <<"Alice", "Bob">>

Participants == {ParticipantList[i] : i \in 1..Len(ParticipantList)}

Range(s) == {s[i] : i \in 1..Len(s)}

\* the datetimes of the messages
T1 == [year |-> 2018, month |-> 9, hour |-> 14]
T2 == [year |-> 2017, month |-> 10, hour |-> 9]
T3 == [year |-> 2018, month |-> 10, hour |-> 14]

\* the entries of UNICODE_EMOJI that occur in the contents below
UNICODE_EMOJI == {"U+1F600", "U+2764"}

Hi == <<"h", "i">>
Len4 == <<"y", "o", "l", "o">>
Len6 == <<"h", "e", "l", "l", "o", "!">>
WithEmoji == <<"\\", "u", "\\", "u", "\\", "u", "\\", "u", "U+1F600">>

Jpg == <<"a", ".", "j", "p", "g">>
Gif == <<"b", ".", "g", "i", "f">>
GifThumb == <<"c", ".", "g", "i", "f", ".", "j", "p", "g">>

\* the messages a conversation is made of; Carol is not a participant
Messages ==
    { [sender_name |-> "Alice", timestamp |-> T1, content |-> Len4],
      [sender_name |-> "Alice", timestamp |-> T1, content |-> Len6],
      [sender_name |-> "Alice", timestamp |-> T2, content |-> Len6,
       share |-> <<"link">>],
      [sender_name |-> "Bob", timestamp |-> T1, content |-> Len4],
      [sender_name |-> "Bob", timestamp |-> T2, content |-> Hi,
       reactions |-> <<"Alice">>],
      [sender_name |-> "Bob", timestamp |-> T3, content |-> WithEmoji],
      [sender_name |-> "Alice", timestamp |-> T1, reactions |-> <<"Bob">>],
      [sender_name |-> "Alice", timestamp |-> T3, content |-> <<>>,
       reactions |-> <<"Bob", "Alice", "Bob">>],
      [sender_name |-> "Bob", timestamp |-> T3, photos |-> <<GifThumb>>,
       videos |-> <<"v1", "v2">>, share |-> <<>>],
      [sender_name |-> "Alice", timestamp |-> T2,
       photos |-> <<Jpg, Jpg, Jpg>>, gifs |-> <<Gif, Gif>>],
      [sender_name |-> "Carol", timestamp |-> T1, content |-> Hi],
      [sender_name |-> "Alice", timestamp |-> T2, content |-> Hi,
       reactions |-> <<"Bob", "Carol", "Bob">>] }

(***************************************************************************)
(* Python numbers and strings                                              *)
(***************************************************************************)
RECURSIVE GCD(_, _)
GCD(a, b) == IF b = 0 THEN a ELSE GCD(b, a % b)

Frac(n, d) == LET g == GCD(n, d) IN [num |-> n \div g, den |-> d \div g]

\* x += n for an integer n
AddInt(x, n) == Frac(x.num + n * x.den, x.den)

\* x /= n for an integer n > 0
TrueDiv(x, n) == Frac(x.num, x.den * n)

DigitChars == <<"0", "1", "2", "3", "4", "5", "6", "7", "8", "9">>

\* '%d' % n
RECURSIVE Fmt_d(_)
Fmt_d(n) ==
    IF n < 10 THEN <<DigitChars[n + 1]>>
    ELSE Fmt_d(n \div 10) \o <<DigitChars[(n % 10) + 1]>>

\* '%02d' % n
Fmt_02d(n) == IF n < 10 THEN <<"0">> \o Fmt_d(n) ELSE Fmt_d(n)

\* sub in s
Contains(sub, s) ==
    \E i \in 0..(Len(s) - Len(sub)) :
        \A j \in 1..Len(sub) : s[i + j] = sub[j]

\* s.count(sub), for a sub that cannot overlap itself
StrCount(s, sub) ==
    Cardinality({i \in 0..(Len(s) - Len(sub)) :
                    \A j \in 1..Len(sub) : s[i + j] = sub[j]})

\* a test of the presence of the key instead of the truth of its value
TruthyKeyPresent(msg, key) == key \in DOMAIN msg

\* msg.get(key) is truthy
Truthy(msg, key) == key \in DOMAIN msg /\ msg[key] # <<>>

\* msg.get(key, [])
GetList(msg, key) == IF key \in DOMAIN msg THEN msg[key] ELSE <<>>

(***************************************************************************)
(* The statistics profiles                                                 *)
(***************************************************************************)
DATA_COLLECTED ==
    [msgs_sent |-> "Messages sent", avg_msg_len |-> "Avg message length",
     photos_sent |-> "Photos sent", vids_sent |-> "Videos sent",
     links_sent |-> "Links shared", gifs_sent |-> "GIFs sent",
     emojis_sent |-> "Emoji sent", reactions |-> "Reactions"]

_create_stats ==
    [k \in DOMAIN DATA_COLLECTED |->
        IF k = "avg_msg_len" THEN Frac(0, 1) ELSE 0]

create_stats(interval) ==
    LET general == _create_stats
    IN  IF interval = "hourly"
        THEN general @@ ("int" :> [hr \in 0..23 |-> _create_stats])
        ELSE general @@ ("int" :> <<>>)

count_emoji(s) ==
    LET unorthodox_counting == StrCount(s, <<"\\", "u">>) \div 4
        orthodox_counting ==
            Cardinality({i \in 1..Len(s) : s[i] \in UNICODE_EMOJI})
    IN  unorthodox_counting + orthodox_counting

is_gif(p) == Contains(<<".", "g", "i", "f">>, p)

get_correct_interval(stamp, interval) ==
    CASE interval = "hourly" -> stamp.hour
      [] interval = "monthly" ->
            Fmt_d(stamp.year) \o <<"-">> \o Fmt_02d(stamp.month)
      [] interval = "yearly" -> Fmt_d(stamp.year)

(***************************************************************************)
(* The handlers.  Each maps the table to the table after the call.         *)
(***************************************************************************)
\* the interval's count of messages is forgotten
handle_content_alltime_only(st, interval, msg) ==
    LET name == msg.sender_name
        emojis == count_emoji(msg.content)
        n == Len(msg.content)
    IN  [st EXCEPT
            ![name].msgs_sent = @ + 1,
            ![name].avg_msg_len = AddInt(@, n),
            ![name].emojis_sent = @ + emojis,
            ![name].int[interval].avg_msg_len = AddInt(@, n),
            ![name].int[interval].emojis_sent = @ + emojis]

handle_content(st, interval, msg) ==
    LET name == msg.sender_name
        emojis == count_emoji(msg.content)
        n == Len(msg.content)
    IN  [st EXCEPT
            ![name].msgs_sent = @ + 1,
            ![name].avg_msg_len = AddInt(@, n),
            ![name].emojis_sent = @ + emojis,
            ![name].int[interval].msgs_sent = @ + 1,
            ![name].int[interval].avg_msg_len = AddInt(@, n),
            ![name].int[interval].emojis_sent = @ + emojis]

handle_photos_and_gifs(st, interval, msg) ==
    LET name == msg.sender_name
        all == GetList(msg, "photos") \o GetList(msg, "gifs")
        gifs == Cardinality({i \in 1..Len(all) : is_gif(all[i])})
        photos == Cardinality({i \in 1..Len(all) : ~is_gif(all[i])})
    IN  [st EXCEPT
            ![name].photos_sent = @ + photos,
            ![name].gifs_sent = @ + gifs,
            ![name].int[interval].photos_sent = @ + photos,
            ![name].int[interval].gifs_sent = @ + gifs]

handle_videos(st, interval, msg) ==
    LET name == msg.sender_name
    IN  [st EXCEPT
            ![name].vids_sent = @ + Len(msg.videos),
            ![name].int[interval].vids_sent = @ + Len(msg.videos)]

handle_links(st, interval, msg) ==
    LET name == msg.sender_name
    IN  [st EXCEPT
            ![name].links_sent = @ + 1,
            ![name].int[interval].links_sent = @ + 1]

\* the profile of the interval is created without the test of its absence
EnsureIntervalAlways(st, who, interval) ==
    [st EXCEPT ![who].int = (interval :> _create_stats) @@ @]

\* lines 305-307 and 271-273: the profile of the interval exists afterwards
EnsureInterval(st, who, interval) ==
    IF interval \notin DOMAIN st[who].int
    THEN [st EXCEPT ![who].int = @ @@ (interval :> _create_stats)]
    ELSE st

\* one turn of the loop of handle_reactions, for a declared actor
React(st, actor, interval) ==
    LET s1 == EnsureInterval(st, actor, interval)
    IN  [s1 EXCEPT
            ![actor].reactions = @ + 1,
            ![actor].int[interval].reactions = @ + 1]

\* the loop of handle_reactions from the i-th reaction on; stats[actor] of
\* a name that is no key of stats raises KeyError and ends the loop
RECURSIVE ReactFrom(_, _, _, _)
ReactFrom(r, interval, reactions, i) ==
    IF i > Len(reactions) THEN r
    ELSE IF reactions[i] \notin DOMAIN r.stats
         THEN [r EXCEPT !.err = "KeyError"]
         ELSE ReactFrom([r EXCEPT !.stats = React(@, reactions[i], interval)],
                        interval, reactions, i + 1)

\* the reactions are credited to the sender of the message
handle_reactions_to_sender(st, interval, msg) ==
    ReactFrom([stats |-> st, err |-> "none"], interval,
              [i \in 1..Len(msg.reactions) |-> msg.sender_name], 1)

handle_reactions(st, interval, msg) ==
    ReactFrom([stats |-> st, err |-> "none"], interval, msg.reactions, 1)

\* the interval is appended without the test of its absence
AddIntervalAlways(ivs, interval) == Append(ivs, interval)

\* lines 302-304
AddInterval(ivs, interval) ==
    IF interval \notin Range(ivs) THEN Append(ivs, interval) ELSE ivs

\* lines 309-318, for a sender that is a key of stats
Dispatch(st, interval, msg) ==
    LET s1 == IF Truthy(msg, "content")
              THEN handle_content(st, interval, msg) ELSE st
        s2 == IF Truthy(msg, "photos") \/ Truthy(msg, "gifs")
              THEN handle_photos_and_gifs(s1, interval, msg) ELSE s1
        s3 == IF Truthy(msg, "videos")
              THEN handle_videos(s2, interval, msg) ELSE s2
        r4 == IF Truthy(msg, "reactions")
              THEN handle_reactions(s3, interval, msg)
              ELSE [stats |-> s3, err |-> "none"]
    IN  IF r4.err # "none" THEN r4
        ELSE IF Truthy(msg, "share")
             THEN [r4 EXCEPT !.stats = handle_links(@, interval, msg)]
             ELSE r4

\* the body of the loop of analyze() for one message
FoldMsg(tab, msg, interval_mode) ==
    LET interval == get_correct_interval(msg.timestamp, interval_mode)
        name == msg.sender_name
        ivs == AddInterval(tab.intervals, interval)
    IN  IF name \notin DOMAIN tab.stats
        THEN [stats |-> tab.stats, intervals |-> ivs, err |-> "KeyError"]
        ELSE LET r == Dispatch(EnsureInterval(tab.stats, name, interval),
                               interval, msg)
             IN  [stats |-> r.stats, intervals |-> ivs, err |-> r.err]

\* lines 294-295
InitialTable(interval_mode) ==
    [stats |-> [p \in Participants |-> create_stats(interval_mode)],
     intervals |-> <<>>, err |-> "none"]

\* the loop of lines 297-318 over the messages h from the i-th on
RECURSIVE FoldFrom(_, _, _, _)
FoldFrom(tab, h, i, interval_mode) ==
    IF i > Len(h) \/ tab.err # "none" THEN tab
    ELSE FoldFrom(FoldMsg(tab, h[i], interval_mode), h, i + 1, interval_mode)

(***************************************************************************)
(* The averaging pass                                                      *)
(***************************************************************************)
\* every interval is divided by the all-time count of messages
AverageIntervalsByTotal(ps) ==
    [k \in DOMAIN ps.int |->
        IF ps.int[k].msgs_sent > 0
        THEN [ps.int[k] EXCEPT !.avg_msg_len = TrueDiv(@, ps.msgs_sent)]
        ELSE ps.int[k]]

\* lines 326-328 for one participant's profile
AverageIntervals(ps) ==
    [k \in DOMAIN ps.int |->
        IF ps.int[k].msgs_sent > 0
        THEN [ps.int[k] EXCEPT !.avg_msg_len = TrueDiv(@, ps.int[k].msgs_sent)]
        ELSE ps.int[k]]

\* line 325 and the loop after it for one participant's profile
AverageOut(ps) ==
    LET general == [ps EXCEPT !.avg_msg_len = TrueDiv(@, ps.msgs_sent)]
    IN  [general EXCEPT !.int = AverageIntervals(general)]

\* the loop of lines 321-328 from the i-th name on; the division of line
\* 325 raises ZeroDivisionError when the participant sent no message
RECURSIVE AverageFrom(_, _)
AverageFrom(r, i) ==
    IF i > Len(ParticipantList) THEN r
    ELSE LET name == ParticipantList[i]
         IN  IF r.stats[name].msgs_sent = 0
             THEN [r EXCEPT !.err = "ZeroDivisionError"]
             ELSE AverageFrom([r EXCEPT !.stats[name] = AverageOut(@)], i + 1)

\* analyze() up to the call of pretty_print_stats
Analyze(h, interval_mode) ==
    LET folded == FoldFrom(InitialTable(interval_mode), h, 1, interval_mode)
    IN  IF folded.err # "none" THEN folded
        ELSE LET r == AverageFrom([stats |-> folded.stats, err |-> "none"], 1)
             IN  [stats |-> r.stats, intervals |-> folded.intervals,
                  err |-> r.err]

(***************************************************************************)
(* Display                                                                 *)
(***************************************************************************)
get_interval_tsv(st, interval) ==
    [p \in DOMAIN st |->
        IF interval \in DOMAIN st[p].int THEN st[p].int[interval]
        ELSE _create_stats]

\* the rows print_interval_stats prints, in the order it prints them
print_interval_stats(st, ivs, interval) ==
    IF interval = "hourly"
    THEN [i \in 1..24 |-> <<i - 1, get_interval_tsv(st, i - 1)>>]
    ELSE [i \in 1..Len(ivs) |-> <<ivs[i], get_interval_tsv(st, ivs[i])>>]

(***************************************************************************)
(* The state machine of one run of analyze()                               *)
(***************************************************************************)
Init ==
    /\ mode \in INTERVALS
    /\ msgs = <<>>
    /\ stats = InitialTable(mode).stats
    /\ intervals = InitialTable(mode).intervals
    /\ pc = "Accumulating"
    /\ fault = "none"
    /\ out = <<>>

\* one turn of the loop over convo['messages']
Fold(msg) ==
    /\ pc = "Accumulating"
    /\ Len(msgs) < MaxEvents
    /\ LET r == FoldMsg([stats |-> stats, intervals |-> intervals], msg, mode)
       IN  /\ stats' = r.stats
           /\ intervals' = r.intervals
           /\ fault' = r.err
           /\ pc' = IF r.err = "none" THEN "Accumulating" ELSE "Aborted"
    /\ msgs' = Append(msgs, msg)
    /\ UNCHANGED <<mode, out>>

\* the list of messages is exhausted: the averaging pass
Normalize ==
    /\ pc = "Accumulating"
    /\ LET r == AverageFrom([stats |-> stats, err |-> "none"], 1)
       IN  /\ stats' = r.stats
           /\ fault' = r.err
           /\ pc' = IF r.err = "none" THEN "Normalized" ELSE "Aborted"
    /\ UNCHANGED <<mode, msgs, intervals, out>>

PrettyPrint ==
    /\ pc = "Normalized"
    /\ out' = print_interval_stats(stats, intervals, mode)
    /\ pc' = "Printed"
    /\ UNCHANGED <<mode, msgs, stats, intervals, fault>>

Next ==
    \/ \E msg \in Messages : Fold(msg)
    \/ Normalize
    \/ PrettyPrint

Spec == Init /\ [][Next]_vars

(***************************************************************************)
(* What the conversation read so far says, computed from the messages      *)
(***************************************************************************)
CarriesText(m) == "content" \in DOMAIN m /\ Len(m.content) > 0

KeyOf(m) == get_correct_interval(m.timestamp, mode)

KeysSeen == {KeyOf(msgs[i]) : i \in 1..Len(msgs)}

\* the text messages of p whose interval key is in K
TextsOf(p, K) ==
    {i \in 1..Len(msgs) :
        CarriesText(msgs[i]) /\ msgs[i].sender_name = p /\ KeyOf(msgs[i]) \in K}

RECURSIVE CharsOf(_)
CharsOf(I) ==
    IF I = {} THEN 0
    ELSE LET i == CHOOSE j \in I : TRUE
         IN  Len(msgs[i].content) + CharsOf(I \ {i})

RECURSIVE SumMsgsSent(_, _)
SumMsgsSent(f, S) ==
    IF S = {} THEN 0
    ELSE LET x == CHOOSE y \in S : TRUE
         IN  f[x].msgs_sent + SumMsgsSent(f, S \ {x})

CountIn(seq, x) == Cardinality({i \in 1..Len(seq) : seq[i] = x})

ProfileAt(ps, k) == IF k \in DOMAIN ps.int THEN ps.int[k] ELSE _create_stats

IsZero(x) == x.num = 0

Finished == pc \in {"Normalized", "Printed"}

\* a turn of the loop over the messages that ran to its end
FoldCompleted == pc = "Accumulating" /\ pc' = "Accumulating" /\ msgs' # msgs

(***************************************************************************)
(* The claims                                                              *)
(***************************************************************************)

\* C1: the averaging pass never raises a division fault, and a participant
\* whose all-time messages-sent is 0 ends with average length 0, as does
\* every interval entry with messages-sent 0.
NormalizationNeverFaults ==
    /\ fault # "ZeroDivisionError"
    /\ Finished =>
        \A p \in Participants :
            /\ stats[p].msgs_sent = 0 => IsZero(stats[p].avg_msg_len)
            /\ \A k \in DOMAIN stats[p].int :
                stats[p].int[k].msgs_sent = 0 =>
                    IsZero(stats[p].int[k].avg_msg_len)

\* C2: in every state of the run, for every participant, the all-time
\* messages-sent equals the sum of the messages-sent of the entries of the
\* participant's interval mapping.
TotalsConsistency ==
    \A p \in DOMAIN stats :
        stats[p].msgs_sent = SumMsgsSent(stats[p].int, DOMAIN stats[p].int)

TotalsWitness ==
    /\ mode = "monthly"
    /\ pc = "Accumulating"
    /\ \E p \in Participants :
        /\ stats[p].msgs_sent = 2
        /\ \E j, k \in DOMAIN stats[p].int :
            j # k /\ stats[p].int[j].msgs_sent = 1
                  /\ stats[p].int[k].msgs_sent = 1

\* C3: once the messages read so far are folded, the all-time messages-sent
\* of each participant is the number of messages with non-empty text it
\* sent, and the sum over the participants is the number of messages with
\* non-empty text.
NoDoubleCounting ==
    fault # "KeyError" =>
        /\ \A p \in Participants :
            stats[p].msgs_sent = Cardinality(TextsOf(p, KeysSeen))
        /\ SumMsgsSent(stats, Participants)
             = Cardinality({i \in 1..Len(msgs) : CarriesText(msgs[i])})

NoDoubleCountingWitness ==
    /\ pc = "Accumulating"
    /\ Len(msgs) = 3
    /\ \E i \in 1..3 : "content" \in DOMAIN msgs[i] /\ msgs[i].content = <<>>
    /\ \E i \in 1..3 : "content" \notin DOMAIN msgs[i]
    /\ SumMsgsSent(stats, Participants) = 1

\* the message without its list of reactions
WithoutReactions(m) == [k \in DOMAIN m \ {"reactions"} |-> m[k]]

\* the counters of a profile other than reactions
OtherCounters(c) == [k \in DOMAIN DATA_COLLECTED \ {"reactions"} |-> c[k]]

\* C4: a completed fold of a message adds to reactions, all-time and in the
\* message's interval, the number of times the participant is an actor of
\* the message's reactions (so nothing for a sender that is no actor), and
\* every other counter ends as it does when the message has no reactions.
ReactionAttribution ==
    [][FoldCompleted =>
        LET m == msgs'[Len(msgs')]
            k == KeyOf(m)
            actors == GetList(m, "reactions")
        IN  \A plain \in {FoldMsg([stats |-> stats, intervals |-> intervals],
                                  WithoutReactions(m), mode).stats} :
            \A p \in Participants :
                LET D == DOMAIN stats'[p].int
                IN  /\ stats'[p].reactions
                         = stats[p].reactions + CountIn(actors, p)
                    /\ [j \in D |-> stats'[p].int[j].reactions]
                         = [j \in D |-> ProfileAt(stats[p], j).reactions
                                + (IF j = k THEN CountIn(actors, p) ELSE 0)]
                    /\ OtherCounters(stats'[p]) = OtherCounters(plain[p])
                    /\ [j \in D |-> OtherCounters(stats'[p].int[j])]
                         = [j \in D |-> OtherCounters(ProfileAt(plain[p], j))]
                    /\ DOMAIN plain[p].int \subseteq D]_vars

ReactionAttributionWitness ==
    /\ pc = "Accumulating"
    /\ Len(msgs) = 1
    /\ msgs[1].sender_name = "Alice"
    /\ "reactions" \in DOMAIN msgs[1] /\ msgs[1].reactions = <<"Bob">>
    /\ stats["Bob"].reactions = 1
    /\ stats["Alice"].reactions = 0
    /\ stats["Alice"].msgs_sent = 0

\* s.endswith(suffix)
EndsWith(s, suffix) ==
    /\ Len(s) >= Len(suffix)
    /\ \A j \in 1..Len(suffix) : s[Len(s) - Len(suffix) + j] = suffix[j]

\* C5: a completed fold of a message counts each attachment of its photos
\* and gifs lists once, as a GIF iff its locator ends in ".gif" and as a
\* photo otherwise.
GifPhotoPartition ==
    [][FoldCompleted =>
        LET m == msgs'[Len(msgs')]
            p == m.sender_name
            all == GetList(m, "photos") \o GetList(m, "gifs")
            g == Cardinality({i \in 1..Len(all) :
                                EndsWith(all[i], <<".", "g", "i", "f">>)})
        IN  /\ stats'[p].gifs_sent = stats[p].gifs_sent + g
            /\ stats'[p].photos_sent = stats[p].photos_sent + (Len(all) - g)]_vars

\* C6: every fold of a message that carries a sender and a timestamp
\* completes without a fault, whoever the sender and the actors are.
FoldIsTotal == fault # "KeyError"

CodePoint(c) ==
    IF c = "-" THEN 45 ELSE 47 + (CHOOSE i \in 1..10 : DigitChars[i] = c)

\* a < b for two Python strings
RECURSIVE LexLess(_, _)
LexLess(a, b) ==
    IF b = <<>> THEN FALSE
    ELSE IF a = <<>> THEN TRUE
    ELSE IF Head(a) # Head(b) THEN CodePoint(Head(a)) < CodePoint(Head(b))
    ELSE LexLess(Tail(a), Tail(b))

KeyLess(a, b) == IF mode = "hourly" THEN a < b ELSE LexLess(a, b)

\* C7: the intervals are displayed in ascending order, each distinct key
\* once: 0..23 in hourly mode, the observed keys in lexicographic order in
\* monthly and yearly mode.
DisplayAscending ==
    pc = "Printed" =>
        /\ \A i \in 1..(Len(out) - 1) : KeyLess(out[i][1], out[i + 1][1])
        /\ {out[i][1] : i \in 1..Len(out)}
             = (IF mode = "hourly" THEN 0..23 ELSE KeysSeen)

\* C8: while the messages are folded avg_msg_len is the count of characters;
\* after the averaging pass each entry with messages-sent > 0, all-time or
\* of an interval, holds the characters of its own text messages divided by
\* their number.
PerBucketAveraging ==
    \A p \in Participants :
        LET all == TextsOf(p, KeysSeen)
        IN  /\ pc = "Accumulating" =>
                /\ stats[p].avg_msg_len = [num |-> CharsOf(all), den |-> 1]
                /\ \A k \in DOMAIN stats[p].int :
                     stats[p].int[k].avg_msg_len
                        = [num |-> CharsOf(TextsOf(p, {k})), den |-> 1]
            /\ Finished =>
                /\ stats[p].msgs_sent = Cardinality(all)
                /\ stats[p].avg_msg_len.den > 0
                /\ stats[p].avg_msg_len.num * Cardinality(all)
                     = CharsOf(all) * stats[p].avg_msg_len.den
                /\ \A k \in DOMAIN stats[p].int :
                     LET own == TextsOf(p, {k})
                         avg == stats[p].int[k].avg_msg_len
                     IN  /\ stats[p].int[k].msgs_sent = Cardinality(own)
                         /\ avg.den > 0
                         /\ avg.num * Cardinality(own) = CharsOf(own) * avg.den

PerBucketAveragingWitness ==
    /\ pc = "Normalized"
    /\ \E p \in Participants :
        \E k \in DOMAIN stats[p].int :
            /\ stats[p].int[k].msgs_sent = 2
            /\ {Len(msgs[i].content) : i \in TextsOf(p, {k})} = {4, 6}
            /\ stats[p].int[k].avg_msg_len = [num |-> 5, den |-> 1]
            /\ stats[p].avg_msg_len = [num |-> 5, den |-> 1]

\* the messages read so far in the order f
Reordered(f) == [i \in 1..Len(msgs) |-> msgs[f[i]]]

\* C9: the finished table of the messages read is the finished table of
\* every permutation of them: the same counters for every participant,
\* all-time and per interval key, and the same set of distinct intervals.
OrderIndependence ==
    pc = "Normalized" =>
        \A f \in Permutations(1..Len(msgs)) :
            \A other \in {Analyze(Reordered(f), mode)} :
                /\ other.err = "none"
                /\ other.stats = stats
                /\ Range(other.intervals) = Range(intervals)

OrderIndependenceWitness ==
    /\ pc = "Normalized"
    /\ Len(msgs) = 3
    /\ Len(intervals) >= 2
    /\ \E i, j \in 1..3 : i < j /\ msgs[i] # msgs[j]
                                /\ KeyOf(msgs[i]) # KeyOf(msgs[j])
    /\ \E i \in 1..3 : Truthy(msgs[i], "reactions")

\* C10: in every state the distinct-interval list has no duplicate and
\* holds exactly the keys of the messages read so far; in monthly and yearly
\* mode every key of a participant's interval mapping is in the list.
IntervalSetInvariant ==
    /\ \A i, j \in 1..Len(intervals) : intervals[i] = intervals[j] => i = j
    /\ Range(intervals) = KeysSeen
    /\ mode # "hourly" =>
        \A p \in DOMAIN stats : DOMAIN stats[p].int \subseteq Range(intervals)

IntervalSetWitness ==
    /\ mode = "monthly"
    /\ pc = "Accumulating"
    /\ Len(msgs) = 3 /\ Len(intervals) = 2
    /\ \E p \in Participants :
        \E k \in DOMAIN stats[p].int :
            /\ stats[p].int[k].reactions > 0
            /\ \A i \in 1..Len(msgs) :
                 KeyOf(msgs[i]) = k => msgs[i].sender_name # p

=============================================================================
